---- MODULE Spec2Model ----
(***************************************************************************)
(* Voice-catalog construction of wyoming_cloud_streamer.__main__.main:     *)
(* load the builtin voices.json, merge the optional CUSTOM_VOICES_PATH     *)
(* file into it, synthesize one TtsVoice per (provider, voice, language),  *)
(* sort the voices by name into the Info structure and start the server.   *)
(*                                                                         *)
(* Python strings are modelled as sequences of one-character strings, so   *)
(* that str.replace, str.capitalize, concatenation and the code-point      *)
(* ordering used by sorted() are computed rather than assumed.             *)
(***************************************************************************)
EXTENDS Integers, Sequences, FiniteSets, TLC

VARIABLES
    pc,            \* position of main(): which block runs next
    builtin_file,  \* the builtin voices.json on disk
    custom_env,    \* CUSTOM_VOICES_PATH and the file it names
    voices_data,   \* the in-memory provider table (dict, in insertion order)
    voices,        \* the list of TtsVoice built by the synthesis loop
    wyoming_info,  \* Info.tts[0].voices, the advertised (sorted) voices
    log            \* what _LOGGER has emitted at WARNING and above, and "Ready"

vars == <<pc, builtin_file, custom_env, voices_data, voices, wyoming_info, log>>

----------------------------------------------------------------------------
(* Bounds of the model. *)

\* longest "voices" list of one provider in an input file
MaxVoices == 2
\* longest "languages" list of one provider in an input file
MaxLangs == 1

----------------------------------------------------------------------------
(* Strings. *)

Digits == <<"0", "1", "2", "3", "4", "5", "6", "7", "8", "9">>
Upper == <<"A", "B", "C", "D", "E", "F", "G", "H", "I", "J", "K", "L", "M",
           "N", "O", "P", "Q", "R", "S", "T", "U", "V", "W", "X", "Y", "Z">>
Lower == <<"a", "b", "c", "d", "e", "f", "g", "h", "i", "j", "k", "l", "m",
           "n", "o", "p", "q", "r", "s", "t", "u", "v", "w", "x", "y", "z">>

IndexOf(s, c) == CHOOSE i \in 1..Len(s) : s[i] = c
Has(s, c) == \E i \in 1..Len(s) : s[i] = c

\* ord(c): the code point Python compares characters by
Ord(c) ==
    IF c = "-" THEN 45
    ELSE IF Has(Digits, c) THEN 47 + IndexOf(Digits, c)
    ELSE IF Has(Upper, c) THEN 64 + IndexOf(Upper, c)
    ELSE IF c = "_" THEN 95
    ELSE 96 + IndexOf(Lower, c)

\* a < b on str: the first differing code point decides, a proper prefix is smaller
RECURSIVE StrLessFrom(_, _, _)
StrLessFrom(a, b, i) ==
    IF i > Len(b) THEN FALSE
    ELSE IF i > Len(a) THEN TRUE
    ELSE IF a[i] = b[i] THEN StrLessFrom(a, b, i + 1)
    ELSE Ord(a[i]) < Ord(b[i])

StrLess(a, b) == StrLessFrom(a, b, 1)

\* the slip of s.replace('_', '-'): every underscore is rewritten
ReplaceAll(s) == [i \in 1..Len(s) |-> IF s[i] = "_" THEN "-" ELSE s[i]]

\* s.replace('_', '-', 1): only the leftmost underscore is rewritten
RECURSIVE ReplaceFirstFrom(_, _)
ReplaceFirstFrom(s, i) ==
    IF i > Len(s) THEN s
    ELSE IF s[i] = "_" THEN [s EXCEPT ![i] = "-"]
    ELSE ReplaceFirstFrom(s, i + 1)

ReplaceFirst(s) == ReplaceFirstFrom(s, 1)

ToUpper(c) == IF Has(Lower, c) THEN Upper[IndexOf(Lower, c)] ELSE c
ToLower(c) == IF Has(Upper, c) THEN Lower[IndexOf(Upper, c)] ELSE c

\* s.capitalize(): first character upper-cased, the rest lower-cased
Capitalize(s) ==
    [i \in 1..Len(s) |-> IF i = 1 THEN ToUpper(s[i]) ELSE ToLower(s[i])]

\* x in lst
In(x, lst) == \E i \in 1..Len(lst) : lst[i] = x

----------------------------------------------------------------------------
(* String literals of the source. *)

KeyGoogle == <<"g", "o", "o", "g", "l", "e">>
KeyOpenai == <<"o", "p", "e", "n", "a", "i">>
InfixGoogle == <<"-", "C", "h", "i", "r", "p", "3", "-", "H", "D", "-">>
InfixOpenai == <<"-", "o", "p", "e", "n", "a", "i", "-">>
Hyphen == <<"-">>
Underscore == <<"_">>
NameGoogle == <<"G", "o", "o", "g", "l", "e">>
NameOpenAI == <<"O", "p", "e", "n", "A", "I">>
UrlGoogle == "https://cloud.google.com/text-to-speech/docs/chirp3-hd"
UrlOpenAI == "https://platform.openai.com/docs/guides/text-to-speech"

----------------------------------------------------------------------------
(* JSON values as json.load returns them.  A provider's value is either a  *)
(* dict ("object") or something else that has no .get ("scalar").  A field *)
(* of a provider dict is missing ("absent"), a list of strings ("list"), a *)
(* value that cannot be iterated ("scalar": a number, true, false, null),  *)
(* a str ("string"), whose iteration yields its characters, or a dict      *)
(* ("dict"), whose iteration yields its keys.  items is what a for loop    *)
(* over the value yields.                                                  *)

Absent == [kind |-> "absent", items |-> <<>>]
Scalar == [kind |-> "scalar", items |-> <<>>]
List(items) == [kind |-> "list", items |-> items]
Str(s) == [kind |-> "string", items |-> [i \in 1..Len(s) |-> <<s[i]>>]]
Dict(keys) == [kind |-> "dict", items |-> keys]

\* the str whose characters are items
Joined(items) == [i \in 1..Len(items) |-> items[i][1]]

\* v in s, for two str: v occurs in s as a substring
IsSubstring(v, s) ==
    \E i \in 0..(Len(s) - Len(v)) : SubSeq(s, i + 1, i + Len(v)) = v

Object(v, l) == [kind |-> "object", voices |-> v, languages |-> l]
NotObject == [kind |-> "scalar", voices |-> Absent, languages |-> Absent]

\* position of provider key k in a table (a dict in insertion order), 0 if absent
KeyIndex(table, k) ==
    IF \E i \in 1..Len(table) : table[i].key = k
    THEN CHOOSE i \in 1..Len(table) : table[i].key = k
    ELSE 0

----------------------------------------------------------------------------
(* Catalog merge, lines 69-84. *)

\* the slip of base.extend(ov): no membership test
AppendAll(base, ov, i) == base \o SubSeq(ov, i, Len(ov))

\* for v in ov: if v not in base: base.append(v)
RECURSIVE AppendMissing(_, _, _)
AppendMissing(base, ov, i) ==
    IF i > Len(ov) THEN base
    ELSE IF In(ov[i], base) THEN AppendMissing(base, ov, i + 1)
    ELSE AppendMissing(Append(base, ov[i]), ov, i + 1)

\* "v not in base" for a base that is not a list: substring test on a str,
\* key test on a dict
InBase(v, base) ==
    IF base.kind = "string" THEN IsSubstring(v, Joined(base.items))
    ELSE In(v, base.items)

\* One field ("voices" or "languages") of an existing provider:
\*   base = voices_data[provider].get(field, []); loop over pdata.get(field, []);
\*   voices_data[provider][field] = base.
\* The loop iterates a list, the characters of a str or the keys of a dict.
\* raised: iterating a non-iterable override value (TypeError); "v not in
\* base" on a non-iterable base (TypeError); base.append on a str or dict
\* base (AttributeError).  Each of them happens before anything is appended.
MergeField(base, ov) ==
    IF ov.kind = "scalar" THEN [raised |-> TRUE, field |-> base]
    ELSE IF base.kind = "scalar"
         THEN [raised |-> Len(ov.items) > 0, field |-> base]
    ELSE IF base.kind \in {"string", "dict"}
         THEN [raised |-> \E i \in 1..Len(ov.items) : ~InBase(ov.items[i], base),
               field |-> base]
         ELSE [raised |-> FALSE, field |-> List(AppendMissing(base.items, ov.items, 1))]

\* Body of the merge loop for a provider already in voices_data (lines 74-84).
\* The voices are merged in place before the languages are looked at, so an
\* error in the languages leaves the merged voices behind.
MergeEntry(base, pdata) ==
    IF base.kind # "object" \/ pdata.kind # "object"
    THEN [raised |-> TRUE, entry |-> base]
    ELSE LET v == MergeField(base.voices, pdata.voices) IN
         IF v.raised THEN [raised |-> TRUE, entry |-> base]
         ELSE LET l == MergeField(base.languages, pdata.languages) IN
              IF l.raised
              THEN [raised |-> TRUE, entry |-> [base EXCEPT !.voices = v.field]]
              ELSE [raised |-> FALSE,
                    entry |-> [base EXCEPT !.voices = v.field, !.languages = l.field]]

\* One iteration of "for provider, pdata in custom_data.items()" (lines 69-84)
MergeProvider(table, item) ==
    LET i == KeyIndex(table, item.key) IN
    IF i = 0
    THEN [raised |-> FALSE, data |-> Append(table, item)]
    ELSE LET m == MergeEntry(table[i].pdata, item.pdata) IN
         [raised |-> m.raised, data |-> [table EXCEPT ![i].pdata = m.entry]]

\* the slip of voices_data = custom_data: the override replaces the table
MergeLoopReplaces(table, custom_data, i) == [raised |-> FALSE, data |-> custom_data]

\* The whole loop: the first exception ends it, with voices_data as mutated so far
RECURSIVE MergeLoop(_, _, _)
MergeLoop(table, custom_data, i) ==
    IF i > Len(custom_data) THEN [raised |-> FALSE, data |-> table]
    ELSE LET step == MergeProvider(table, custom_data[i]) IN
         IF step.raised THEN step
         ELSE MergeLoop(step.data, custom_data, i + 1)

----------------------------------------------------------------------------
(* Name synthesis, lines 90-124. *)

\* The TtsVoice built for one (key, voice, language), lines 94-124
TtsVoice(key, voice, language) ==
    IF key = KeyGoogle
    THEN [name |-> ReplaceFirst(language) \o InfixGoogle \o voice,
          description |-> KeyGoogle \o Underscore \o voice,
          attribution |-> [name |-> NameGoogle, url |-> UrlGoogle],
          installed |-> TRUE, version |-> "None",
          languages |-> <<language>>, speakers |-> "None"]
    ELSE IF key = KeyOpenai
    THEN [name |-> ReplaceFirst(language) \o InfixOpenai \o voice,
          description |-> KeyOpenai \o Underscore \o voice,
          attribution |-> [name |-> NameOpenAI, url |-> UrlOpenAI],
          installed |-> TRUE, version |-> "None",
          languages |-> <<language>>, speakers |-> "None"]
    ELSE [name |-> ReplaceFirst(language) \o Hyphen \o key \o Hyphen \o voice,
          description |-> key \o Underscore \o voice,
          attribution |-> [name |-> Capitalize(key), url |-> ""],
          installed |-> TRUE, version |-> "None",
          languages |-> <<language>>, speakers |-> "None"]

\* the slip of a loop that stops after the first language
SynthFirstLanguage(acc, key, voice, langs, j) ==
    IF Len(langs) = 0 THEN acc ELSE Append(acc, TtsVoice(key, voice, langs[1]))

\* for language in voices_data[key]["languages"]: voices.append(TtsVoice(...))
RECURSIVE SynthLanguages(_, _, _, _, _)
SynthLanguages(acc, key, voice, langs, j) ==
    IF j > Len(langs) THEN acc
    ELSE SynthLanguages(Append(acc, TtsVoice(key, voice, langs[j])),
                        key, voice, langs, j + 1)

\* for voice in voices_data[key]["voices"]: ...
RECURSIVE SynthVoices(_, _, _, _)
SynthVoices(acc, key, pdata, i) ==
    IF i > Len(pdata.voices.items) THEN acc
    ELSE SynthVoices(SynthLanguages(acc, key, pdata.voices.items[i],
                                    pdata.languages.items, 1),
                     key, pdata, i + 1)

\* for key in voices_data.keys(): ...
RECURSIVE SynthKeys(_, _, _)
SynthKeys(acc, table, k) ==
    IF k > Len(table) THEN acc
    ELSE SynthKeys(SynthVoices(acc, table[k].key, table[k].pdata, 1), table, k + 1)

\* The lookups of lines 92-93 raise (KeyError, TypeError) outside any try:
\* voices_data[key]["voices"] on a non-dict, a missing or non-iterable
\* "voices"; and, once a voice is being iterated, the same for "languages".
\* A str or a dict is iterated like a list.
EntryRaises(pdata) ==
    \/ pdata.kind # "object"
    \/ pdata.voices.kind \in {"absent", "scalar"}
    \/ /\ Len(pdata.voices.items) > 0
       /\ pdata.languages.kind \in {"absent", "scalar"}

SynthRaises(table) == \E k \in 1..Len(table) : EntryRaises(table[k].pdata)

----------------------------------------------------------------------------
(* Advertisement, lines 126-140: sorted(voices, key=lambda v: v.name). *)

\* the slip of sorted(..., reverse=True): x goes before the first smaller name
RECURSIVE InsertByNameDescending(_, _, _)
InsertByNameDescending(sorted, x, i) ==
    IF i > Len(sorted) THEN Append(sorted, x)
    ELSE IF StrLess(sorted[i].name, x.name)
         THEN SubSeq(sorted, 1, i - 1) \o <<x>> \o SubSeq(sorted, i, Len(sorted))
         ELSE InsertByNameDescending(sorted, x, i + 1)

\* sorted() is stable: x goes before the first element whose name is greater
RECURSIVE InsertByName(_, _, _)
InsertByName(sorted, x, i) ==
    IF i > Len(sorted) THEN Append(sorted, x)
    ELSE IF StrLess(x.name, sorted[i].name)
         THEN SubSeq(sorted, 1, i - 1) \o <<x>> \o SubSeq(sorted, i, Len(sorted))
         ELSE InsertByName(sorted, x, i + 1)

RECURSIVE SortedFrom(_, _, _)
SortedFrom(acc, vs, i) ==
    IF i > Len(vs) THEN acc
    ELSE SortedFrom(InsertByName(acc, vs[i], 1), vs, i + 1)

SortedByName(vs) == SortedFrom(<<>>, vs, 1)

----------------------------------------------------------------------------
(* The input files the runs are drawn from. *)

Aria == <<"A", "r", "i", "a">>
Nova == <<"N", "o", "v", "a">>
VoicePool == {Aria, Nova}

enUS == <<"e", "n", "-", "U", "S">>
en_US_x == <<"e", "n", "_", "U", "S", "_", "x">>
LangPool == {enUS, en_US_x}

\* a field of the custom file given as a JSON string instead of a list
StringPool == {<<"a", "b">>}

custom1 == <<"c", "u", "s", "t", "o", "m", "1">>
Chirp3HD == <<"C", "h", "i", "r", "p", "3", "-", "H", "D">>
BuiltinKeys == {KeyGoogle, KeyOpenai}
CustomKeys == {KeyGoogle, custom1, Chirp3HD}

VoiceLists == UNION {[1..n -> VoicePool] : n \in 0..MaxVoices}
LangLists == UNION {[1..n -> LangPool] : n \in 0..MaxLangs}

NoRepeat(lst) == \A i, j \in 1..Len(lst) : lst[i] = lst[j] => i = j

\* provider entries of the shipped voices.json: non-empty lists of distinct strings
ProviderEntries ==
    {Object(List(v), List(l)) :
        v \in {x \in VoiceLists : Len(x) > 0 /\ NoRepeat(x)},
        l \in {x \in LangLists : Len(x) > 0 /\ NoRepeat(x)}}

\* provider entries of the custom file: any of the shapes above, well-formed or not
AnyField(lists) ==
    {Absent, Scalar} \cup {List(x) : x \in lists}
    \cup {Str(x) : x \in StringPool}
    \cup {Dict(x) : x \in {y \in lists : NoRepeat(y)}}
AnyEntries ==
    {NotObject} \cup {Object(v, l) : v \in AnyField(VoiceLists), l \in AnyField(LangLists)}

Item(k, e) == [key |-> k, pdata |-> e]

BuiltinTables == {<<Item(k, e)>> : k \in BuiltinKeys, e \in ProviderEntries}

CustomTables ==
    {<<>>} \cup {<<Item(k, e)>> : k \in CustomKeys, e \in AnyEntries}

BuiltinFiles ==
    {[status |-> st, table |-> <<>>] : st \in {"missing", "invalid"}}
    \cup {[status |-> "ok", table |-> t] : t \in BuiltinTables}

CustomEnvs ==
    {[path_set |-> FALSE, file |-> "none", table |-> <<>>]}
    \cup {[path_set |-> TRUE, file |-> f, table |-> <<>>] :
            f \in {"none", "invalid", "not_object"}}
    \cup {[path_set |-> TRUE, file |-> "object", table |-> t] : t \in CustomTables}

----------------------------------------------------------------------------
(* main(), block by block. *)

Init ==
    /\ pc = "load_builtin"
    /\ builtin_file \in BuiltinFiles
    /\ custom_env \in CustomEnvs
    /\ voices_data = <<>>
    /\ voices = <<>>
    /\ wyoming_info = <<>>
    /\ log = <<>>

\* the slip of swallowing the builtin failure and going on with an empty table
LoadBuiltinLenient ==
    /\ pc = "load_builtin"
    /\ voices_data' = IF builtin_file.status = "ok" THEN builtin_file.table ELSE <<>>
    /\ pc' = "load_custom"
    /\ log' = IF builtin_file.status = "missing"
              THEN Append(log, "Builtin voices.json not found")
              ELSE log
    /\ UNCHANGED <<builtin_file, custom_env, voices, wyoming_info>>

\* lines 49-55: open and json.load the builtin file; FileNotFoundError is
\* logged and re-raised, any other exception is not caught at all
LoadBuiltin ==
    /\ pc = "load_builtin"
    /\ IF builtin_file.status = "ok"
       THEN /\ voices_data' = builtin_file.table
            /\ pc' = "load_custom"
            /\ log' = log
       ELSE /\ voices_data' = voices_data
            /\ pc' = "aborted"
            /\ log' = IF builtin_file.status = "missing"
                      THEN Append(log, "Builtin voices.json not found")
                      ELSE log
    /\ UNCHANGED <<builtin_file, custom_env, voices, wyoming_info>>

\* lines 60-88: what the try block leaves in voices_data and in the log
LoadCustomResult(table, env) ==
    IF ~env.path_set THEN [data |-> table, log |-> <<>>]
    ELSE IF env.file = "none"
         THEN [data |-> table,
               log |-> <<"CUSTOM_VOICES_PATH set but file does not exist">>]
    ELSE IF env.file \in {"invalid", "not_object"}
         THEN [data |-> table, log |-> <<"Failed to load custom voices">>]
    ELSE LET m == MergeLoop(table, env.table, 1) IN
         [data |-> m.data,
          log |-> IF m.raised THEN <<"Failed to load custom voices">> ELSE <<>>]

LoadCustom ==
    /\ pc = "load_custom"
    /\ LET r == LoadCustomResult(voices_data, custom_env) IN
       /\ voices_data' = r.data
       /\ log' = log \o r.log
    /\ pc' = "synthesize"
    /\ UNCHANGED <<builtin_file, custom_env, voices, wyoming_info>>

\* lines 90-124
Synthesize ==
    /\ pc = "synthesize"
    /\ IF SynthRaises(voices_data)
       THEN /\ pc' = "aborted"
            /\ voices' = voices
       ELSE /\ pc' = "advertise"
            /\ voices' = SynthKeys(<<>>, voices_data, 1)
    /\ UNCHANGED <<builtin_file, custom_env, voices_data, wyoming_info, log>>

\* lines 126-140
Advertise ==
    /\ pc = "advertise"
    /\ wyoming_info' = SortedByName(voices)
    /\ pc' = "start_server"
    /\ UNCHANGED <<builtin_file, custom_env, voices_data, voices, log>>

\* lines 143-153
StartServer ==
    /\ pc = "start_server"
    /\ log' = Append(log, "Ready")
    /\ pc' = "serving"
    /\ UNCHANGED <<builtin_file, custom_env, voices_data, voices, wyoming_info>>

Next ==
    \/ LoadBuiltin
    \/ LoadCustom
    \/ Synthesize
    \/ Advertise
    \/ StartServer

Spec == Init /\ [][Next]_vars

----------------------------------------------------------------------------
(* Vocabulary of the properties. *)

BuiltinOk == builtin_file.status = "ok"

\* the try block of lines 60-88 has run
AfterMerge == BuiltinOk /\ pc \notin {"load_builtin", "load_custom"}

\* the synthesis loop has completed
SynthDone == pc \in {"advertise", "start_server", "serving"}

\* Info has been built
Published == pc \in {"start_server", "serving"}

\* the except clause of line 87 was taken
OverrideFailed == In("Failed to load custom voices", log)

\* the override file was read and merged to the end
OverrideMerged ==
    custom_env.path_set /\ custom_env.file = "object" /\ ~OverrideFailed

Elems(lst) == {lst[i] : i \in 1..Len(lst)}

IsPrefix(a, b) == Len(a) <= Len(b) /\ SubSeq(b, 1, Len(a)) = a

FirstPos(x, lst) ==
    CHOOSE i \in 1..Len(lst) : lst[i] = x /\ \A j \in 1..(i - 1) : lst[j] # x

\* m is b, followed by the strings of o that are not in b, each once, in the
\* order of their first occurrence in o
ExtendedBy(b, o, m) ==
    /\ IsPrefix(b, m)
    /\ LET s == SubSeq(m, Len(b) + 1, Len(m)) IN
       /\ NoRepeat(s)
       /\ Elems(s) = Elems(o) \ Elems(b)
       /\ \A x, y \in 1..Len(s) : x < y => FirstPos(s[x], o) < FirstPos(s[y], o)

\* number of descriptors of one provider: voices times languages
PairCount(pdata) == Len(pdata.voices.items) * Len(pdata.languages.items)

\* number of descriptors of the providers before the k-th
RECURSIVE Offset(_, _)
Offset(table, k) ==
    IF k <= 1 THEN 0 ELSE Offset(table, k - 1) + PairCount(table[k - 1].pdata)

\* the (provider, voice, language) positions of the merged table
Triples ==
    UNION {{<<k, i, j>> : i \in 1..Len(voices_data[k].pdata.voices.items),
                          j \in 1..Len(voices_data[k].pdata.languages.items)} :
           k \in 1..Len(voices_data)}

KeyOf(t) == voices_data[t[1]].key
VoiceOf(t) == voices_data[t[1]].pdata.voices.items[t[2]]
LangOf(t) == voices_data[t[1]].pdata.languages.items[t[3]]

\* the descriptor the synthesis loop built for position t
DescriptorAt(t) ==
    voices[Offset(voices_data, t[1])
           + (t[2] - 1) * Len(voices_data[t[1]].pdata.languages.items) + t[3]]

EndsWith(s, suffix) ==
    /\ Len(suffix) <= Len(s)
    /\ SubSeq(s, Len(s) - Len(suffix) + 1, Len(s)) = suffix

----------------------------------------------------------------------------
(* Properties. *)

\* C1: any two descriptors synthesized from distinct (provider, voice,
\* language) triples of the merged table have distinct names.
GlobalNameUniqueness ==
    SynthDone =>
        \A t, u \in Triples :
            <<KeyOf(t), VoiceOf(t), LangOf(t)>> # <<KeyOf(u), VoiceOf(u), LangOf(u)>>
                => DescriptorAt(t).name # DescriptorAt(u).name

\* C2: whenever loading or merging the override raised, the table used for
\* synthesis is the builtin table and the advertised catalog is the
\* builtin-only catalog.
MalformedOverrideLeavesCatalog ==
    (AfterMerge /\ OverrideFailed) =>
        /\ voices_data = builtin_file.table
        /\ Published =>
              wyoming_info = SortedByName(SynthKeys(<<>>, builtin_file.table, 1))

\* C3: with the builtin catalog loaded, no content of the override source
\* aborts startup.
OnlyBuiltinFailureIsFatal == BuiltinOk => pc # "aborted"

\* C4: after the merge no provider's voices list and no provider's
\* languages list contains a string twice.
MergeIsDuplicateFree ==
    AfterMerge =>
        \A k \in 1..Len(voices_data) :
            /\ NoRepeat(voices_data[k].pdata.voices.items)
            /\ NoRepeat(voices_data[k].pdata.languages.items)

\* C5: the builtin providers keep their place and their entries as a prefix;
\* a provider the override does not name is unchanged; for a provider of both
\* inputs the merged voices are the builtin voices followed by the override
\* voices not already present, in override order, and likewise the languages.
MergePreservesBuiltin ==
    AfterMerge =>
        /\ Len(voices_data) >= Len(builtin_file.table)
        /\ \A k \in 1..Len(builtin_file.table) :
              LET b == builtin_file.table[k]
                  m == voices_data[k]
                  c == KeyIndex(custom_env.table, b.key)
              IN  /\ m.key = b.key
                  /\ m.pdata.voices.kind = "list"
                  /\ m.pdata.languages.kind = "list"
                  /\ IsPrefix(b.pdata.voices.items, m.pdata.voices.items)
                  /\ IsPrefix(b.pdata.languages.items, m.pdata.languages.items)
                  /\ c = 0 => m = b
                  /\ (c # 0 /\ OverrideMerged) =>
                        LET o == custom_env.table[c].pdata IN
                        /\ ExtendedBy(b.pdata.voices.items, o.voices.items,
                                      m.pdata.voices.items)
                        /\ ExtendedBy(b.pdata.languages.items, o.languages.items,
                                      m.pdata.languages.items)

\* a provider of both inputs got a new voice appended while another override
\* voice was already present
MergeExtendsWitness ==
    /\ pc = "serving"
    /\ OverrideMerged
    /\ \E k \in 1..Len(builtin_file.table) :
          LET b == builtin_file.table[k].pdata
              c == KeyIndex(custom_env.table, builtin_file.table[k].key)
          IN  /\ c # 0
              /\ Len(voices_data[k].pdata.voices.items) > Len(b.voices.items)
              /\ \E v \in Elems(custom_env.table[c].pdata.voices.items) :
                    v \in Elems(b.voices.items)
              /\ Len(voices_data[k].pdata.languages.items) > Len(b.languages.items)

\* C6: once the builtin catalog failed to load, startup is aborted: nothing
\* of the override is merged or logged, no descriptor is built, nothing is
\* advertised and the server is not started.
BuiltinFailureIsFatal ==
    (~BuiltinOk /\ pc # "load_builtin") =>
        /\ pc = "aborted"
        /\ voices_data = <<>>
        /\ voices = <<>>
        /\ wyoming_info = <<>>
        /\ \A i \in 1..Len(log) : log[i] = "Builtin voices.json not found"

\* the builtin file is unreadable while an override with a provider is configured
BuiltinFailureWitness ==
    /\ pc = "aborted"
    /\ ~BuiltinOk
    /\ custom_env.file = "object"
    /\ Len(custom_env.table) > 0

\* C7: the synthesis produces, for every provider with m voices and n
\* languages, m * n descriptors, one per (voice, language) pair, and the
\* total is the sum of m * n over the providers.
CrossProductComplete ==
    SynthDone =>
        /\ Len(voices) = Offset(voices_data, Len(voices_data) + 1)
        /\ \A t \in Triples :
              /\ DescriptorAt(t).languages = <<LangOf(t)>>
              /\ EndsWith(DescriptorAt(t).name, VoiceOf(t))
              /\ EndsWith(DescriptorAt(t).description, VoiceOf(t))

\* a provider with two voices and two languages was synthesized
CrossProductWitness ==
    /\ pc = "serving"
    /\ \E k \in 1..Len(voices_data) :
          /\ Len(voices_data[k].pdata.voices.items) >= 2
          /\ Len(voices_data[k].pdata.languages.items) >= 2
    /\ Len(voices) >= 4

\* a is before b in the order of Python's str: at the first position where
\* they differ a has the smaller code point, or a is a proper prefix of b
LexLess(a, b) ==
    \E k \in 1..Len(b) :
        /\ Len(a) >= k - 1
        /\ \A i \in 1..(k - 1) : a[i] = b[i]
        /\ Len(a) >= k => Ord(a[k]) < Ord(b[k])

Occurrences(x, lst) == Cardinality({i \in 1..Len(lst) : lst[i] = x})

\* C8: the advertised voices are a permutation of the synthesized ones, in
\* ascending order of name, and sorting them again changes nothing.
AdvertiseSortsIdempotent ==
    Published =>
        /\ Len(wyoming_info) = Len(voices)
        /\ \A x \in Elems(voices) \cup Elems(wyoming_info) :
              Occurrences(x, wyoming_info) = Occurrences(x, voices)
        /\ \A i, j \in 1..Len(wyoming_info) :
              i < j => ~LexLess(wyoming_info[j].name, wyoming_info[i].name)
        /\ SortedByName(wyoming_info) = wyoming_info

\* the synthesis order was not the advertised order
AdvertiseWitness ==
    /\ pc = "serving"
    /\ Len(voices) >= 3
    /\ wyoming_info # voices

\* n is the language tag l with its leftmost underscore, if any, turned into
\* a hyphen and every other character kept
FirstUnderscoreRewritten(l, n) ==
    /\ Len(n) = Len(l)
    /\ \A i \in 1..Len(l) :
          n[i] = IF l[i] = "_" /\ \A j \in 1..(i - 1) : l[j] # "_" THEN "-" ELSE l[i]

\* the provider segment of a name
Segment(key) ==
    IF key = KeyGoogle THEN Chirp3HD
    ELSE IF key = KeyOpenai THEN KeyOpenai
    ELSE key

\* C9: the name of the descriptor of (provider, voice, language) is
\* N-S-voice, N the language with only its first underscore rewritten and S
\* the provider segment; its languages list is the original language alone.
DescriptorDerivation ==
    SynthDone =>
        \A t \in Triples :
            LET d == DescriptorAt(t)
                l == LangOf(t)
            IN  /\ d.languages = <<l>>
                /\ Len(d.name) >= Len(l)
                /\ FirstUnderscoreRewritten(l, SubSeq(d.name, 1, Len(l)))
                /\ SubSeq(d.name, Len(l) + 1, Len(d.name))
                      = Hyphen \o Segment(KeyOf(t)) \o Hyphen \o VoiceOf(t)

\* descriptors were built for a language with two underscores under the
\* google rule and under the generic rule
DerivationWitness ==
    /\ pc = "serving"
    /\ \E t, u \in Triples :
          /\ LangOf(t) = en_US_x
          /\ KeyOf(t) = KeyGoogle
          /\ LangOf(u) = en_US_x
          /\ KeyOf(u) \notin {KeyGoogle, KeyOpenai}

\* C10: with the override path unset, the file missing, or the override
\* table empty, the merged table is the builtin table.
EmptyOverrideIsIdentity ==
    (/\ AfterMerge
     /\ \/ ~custom_env.path_set
        \/ custom_env.file = "none"
        \/ custom_env.file = "object" /\ custom_env.table = <<>>)
        => voices_data = builtin_file.table

\* the path is set, the file does not exist and the server runs on a
\* non-empty builtin table
EmptyOverrideWitness ==
    /\ pc = "serving"
    /\ custom_env.path_set
    /\ custom_env.file = "none"
    /\ In("CUSTOM_VOICES_PATH set but file does not exist", log)
    /\ Len(voices_data) > 0
    /\ Len(voices) > 0

====
